---- MODULE Spec2Model ----
(***************************************************************************)
(* Model of the model-showdown pipeline (pipeline.ts, types.ts).           *)
(*                                                                         *)
(* runShowdown is an async function: it runs synchronously from one await  *)
(* to the next, and the only await points are the four gateway calls.     *)
(* Each action below is one such synchronous stretch: it consumes the      *)
(* settlement (result or rejection) of the outstanding gateway call and    *)
(* runs the code up to and including the next gateway call.                *)
(*                                                                         *)
(* Text is a sequence of tokens.  Text the code inspects character by      *)
(* character (the task, the expert output) is spelled one character per    *)
(* token; a literal piece of a template string is one token.               *)
(* The numbers the code renders into text (alternative scores, the expert  *)
(* confidence) are kept in hundredths (0.88 is 88, 95 is 9500) so that     *)
(* their decimal rendering can be computed.                                *)
(***************************************************************************)
EXTENDS Integers, Sequences, FiniteSets, TLC

\* Two invocations of runShowdown may be in flight; Spec starts only run 1.
Runs == {1, 2}

\* Longest config.strategies override list the model enumerates.
MaxOverride == 2

\* The longest task text of the role specification, in words.
MaxWords == 2

\* The longest routing justification of the length specification, in
\* characters.
MaxReasoning == 2000

\* The longest expert output of the proposal specification, in characters
\* ("x".repeat(5000) in the tests).
MaxOutput == 5000

\* ------------------------------------------------------------------------
\* types.ts
\* ------------------------------------------------------------------------

VOTING_STRATEGIES ==
  <<"simple_majority", "supermajority", "unanimous", "proof_of_learning", "higher_order">>

VotingStrategy == {VOTING_STRATEGIES[i] : i \in 1..Len(VOTING_STRATEGIES)}

\* z.enum of VoteResponseSchema.decision
Decisions == {"approved", "rejected", "pending", "timeout"}

\* The roles CreateExpertInputSchema accepts.
ExpertRoles ==
  {"code_expert", "architecture_expert", "security_expert",
   "documentation_expert", "testing_expert", "devops_expert",
   "research_expert", "pm_expert", "ux_expert"}

\* Keys a z.object schema requires; parse fails when one is missing and
\* drops every key the schema does not name.
DelegateResponseKeys ==
  {"recommended_model", "reasoning", "capabilities", "estimated_tokens", "alternatives"}

CreateExpertResponseKeys == {"expertId", "role", "capabilities", "status"}

ExecuteExpertResponseKeys == {"expertId", "output", "confidence", "tokensUsed"}

VoteResponseKeys ==
  {"proposal", "strategy", "decision", "approvalPercentage", "voteCounts",
   "votes", "durationMs", "simulateVotes"}

\* What a rejection carries: an Error object with a message, or a value that
\* is not an Error (a bare string).  Schema.parse throws a ZodError, which is
\* an Error whose message lists the issues.
ZodError(schema) == [kind |-> "Error", message |-> <<"ZodError: ", schema>>]

\* Schema.parse(raw): the typed value with unknown keys stripped, or a throw.
StripTo(raw, keys) == [k \in (DOMAIN raw) \cap keys |-> raw[k]]

DelegateResponseSchema_parse(raw) ==
  IF DelegateResponseKeys \subseteq DOMAIN raw
    THEN [ok |-> TRUE, value |-> StripTo(raw, DelegateResponseKeys \cup {"governance"})]
    ELSE [ok |-> FALSE, error |-> ZodError("DelegateResponse")]

CreateExpertResponseSchema_parse(raw) ==
  IF CreateExpertResponseKeys \subseteq DOMAIN raw
    THEN [ok |-> TRUE, value |-> StripTo(raw, CreateExpertResponseKeys)]
    ELSE [ok |-> FALSE, error |-> ZodError("CreateExpertResponse")]

ExecuteExpertResponseSchema_parse(raw) ==
  IF ExecuteExpertResponseKeys \subseteq DOMAIN raw
    THEN [ok |-> TRUE, value |-> StripTo(raw, ExecuteExpertResponseKeys)]
    ELSE [ok |-> FALSE, error |-> ZodError("ExecuteExpertResponse")]

VoteResponseSchema_parse(raw) ==
  IF VoteResponseKeys \subseteq DOMAIN raw /\ raw.decision \in Decisions
    THEN [ok |-> TRUE, value |-> StripTo(raw, VoteResponseKeys)]
    ELSE [ok |-> FALSE, error |-> ZodError("VoteResponse")]

\* ------------------------------------------------------------------------
\* Text helpers (JavaScript string operations used by pipeline.ts)
\* ------------------------------------------------------------------------

Min(a, b) == IF a < b THEN a ELSE b

\* Math.max(a, b)
Math_max(a, b) == IF a >= b THEN a ELSE b

DigitChar(d) == <<"0", "1", "2", "3", "4", "5", "6", "7", "8", "9">>[d + 1]

RECURSIVE Digits(_)
Digits(n) == IF n < 10 THEN <<DigitChar(n)>>
             ELSE Digits(n \div 10) \o <<DigitChar(n % 10)>>

\* `${x}` for a non-negative number x given in hundredths: the shortest
\* decimal, without trailing zeros (95 -> "95", 0.88 -> "0.88", 0.5 -> "0.5").
NumberToString(h) ==
  LET int  == h \div 100
      frac == h % 100
  IN  IF frac = 0 THEN Digits(int)
      ELSE IF frac % 10 = 0 THEN Digits(int) \o <<".", DigitChar(frac \div 10)>>
      ELSE Digits(int) \o <<".", DigitChar(frac \div 10), DigitChar(frac % 10)>>

\* Array.prototype.join
RECURSIVE Join(_, _)
Join(parts, sep) ==
  IF Len(parts) = 0 THEN <<>>
  ELSE IF Len(parts) = 1 THEN parts[1]
  ELSE parts[1] \o sep \o Join(Tail(parts), sep)

\* Variant: a cut text is marked with an ellipsis.
Slice0_ellipsis(s, n) ==
  IF Len(s) > n THEN SubSeq(s, 1, n) \o <<"...">> ELSE s

\* String.prototype.slice(0, n)
Slice0(s, n) == SubSeq(s, 1, Min(Len(s), n))

UpperCase == <<"A", "B", "C", "D", "E", "F", "G", "H", "I", "J", "K", "L", "M",
               "N", "O", "P", "Q", "R", "S", "T", "U", "V", "W", "X", "Y", "Z">>

LowerCase == <<"a", "b", "c", "d", "e", "f", "g", "h", "i", "j", "k", "l", "m",
               "n", "o", "p", "q", "r", "s", "t", "u", "v", "w", "x", "y", "z">>

LowerChar(c) ==
  IF \E i \in 1..26 : UpperCase[i] = c
    THEN LowerCase[CHOOSE i \in 1..26 : UpperCase[i] = c]
    ELSE c

\* String.prototype.toLowerCase
toLowerCase(s) == [i \in 1..Len(s) |-> LowerChar(s[i])]

\* String.prototype.includes
includes(s, kw) ==
  \E i \in 0..(Len(s) - Len(kw)) : SubSeq(s, i + 1, i + Len(kw)) = kw

\* ------------------------------------------------------------------------
\* pipeline.ts helpers
\* ------------------------------------------------------------------------

\* The cut-off of expertResult.output.slice(0, 2000).
OutputCap == 2000

AlternativeText(a) == a.model \o <<" (score: ">> \o NumberToString(a.score) \o <<")">>

\* Variant: the five parts are joined without .filter(Boolean).
buildProposal_noFilter(delegation, expertResult) ==
  LET alternatives ==
        Join([i \in 1..Len(delegation.alternatives) |->
                AlternativeText(delegation.alternatives[i])], <<", ">>)
      lines ==
        << <<"Model recommendation: ">> \o delegation.recommended_model,
           <<"Reasoning: ">> \o delegation.reasoning,
           IF alternatives # <<>> THEN <<"Alternatives: ">> \o alternatives ELSE <<>>,
           <<"Expert analysis (confidence: ">>
              \o NumberToString(expertResult.confidence) \o <<"):">>,
           Slice0(expertResult.output, OutputCap) >>
  IN  Join(lines, <<"\n">>)

buildProposal(delegation, expertResult) ==
  LET alternatives ==
        Join([i \in 1..Len(delegation.alternatives) |->
                AlternativeText(delegation.alternatives[i])], <<", ">>)
      lines ==
        << <<"Model recommendation: ">> \o delegation.recommended_model,
           <<"Reasoning: ">> \o delegation.reasoning,
           IF alternatives # <<>> THEN <<"Alternatives: ">> \o alternatives ELSE <<>>,
           <<"Expert analysis (confidence: ">>
              \o NumberToString(expertResult.confidence) \o <<"):">>,
           Slice0(expertResult.output, OutputCap) >>
      IsTruthy(line) == line # <<>>
  IN  Join(SelectSeq(lines, IsTruthy), <<"\n">>)

toStrategyResult(vote) ==
  [strategy           |-> vote.strategy,
   decision           |-> vote.decision,
   approvalPercentage |-> vote.approvalPercentage,
   voteCounts         |-> vote.voteCounts,
   durationMs         |-> vote.durationMs]

\* A JavaScript number that is the quotient of two naturals, kept as the
\* fraction in lowest terms (equal quotients give the same double, and the
\* literals compared against, 0, 0.8, 1.0, are the doubles of 0/1, 4/5, 1/1).
RECURSIVE Gcd(_, _)
Gcd(a, b) == IF b = 0 THEN a ELSE Gcd(b, a % b)

Quotient(n, d) == [num |-> n \div Gcd(n, d), den |-> d \div Gcd(n, d)]

Zero == [num |-> 0, den |-> 1]

CountDecision(results, d) ==
  Len(SelectSeq(results, LAMBDA res : res.decision = d))

\* Variant: the empty list is not special-cased, 0 / 0 is NaN.
computeAgreement_noGuard(results) ==
  IF Len(results) = 0 THEN [num |-> 0, den |-> 0]
  ELSE Quotient(Math_max(CountDecision(results, "approved"),
                         CountDecision(results, "rejected")), Len(results))

\* Variant: only the results that decided are counted in the denominator.
computeAgreement_decidedOnly(results) ==
  LET approvedCount == CountDecision(results, "approved")
      rejectedCount == CountDecision(results, "rejected")
  IN  IF approvedCount + rejectedCount = 0 THEN Zero
      ELSE Quotient(Math_max(approvedCount, rejectedCount),
                    approvedCount + rejectedCount)

\* Variant: the agreement is the share of approvals.
computeAgreement_approvedOnly(results) ==
  IF Len(results) = 0 THEN Zero
  ELSE Quotient(CountDecision(results, "approved"), Len(results))

computeAgreement(results) ==
  IF Len(results) = 0 THEN Zero
  ELSE LET approvedCount == CountDecision(results, "approved")
           rejectedCount == CountDecision(results, "rejected")
           majorityCount == Math_max(approvedCount, rejectedCount)
       IN  Quotient(majorityCount, Len(results))

Chars_security  == <<"s", "e", "c", "u", "r", "i", "t", "y">>
Chars_vulnerab  == <<"v", "u", "l", "n", "e", "r", "a", "b">>
Chars_architect == <<"a", "r", "c", "h", "i", "t", "e", "c", "t">>
Chars_design    == <<"d", "e", "s", "i", "g", "n">>
Chars_test      == <<"t", "e", "s", "t">>
Chars_qa        == <<"q", "a">>
Chars_doc       == <<"d", "o", "c">>
Chars_readme    == <<"r", "e", "a", "d", "m", "e">>
Chars_deploy    == <<"d", "e", "p", "l", "o", "y">>
Chars_cicd      == <<"c", "i", "/", "c", "d">>
Chars_research  == <<"r", "e", "s", "e", "a", "r", "c", "h">>
Chars_paper     == <<"p", "a", "p", "e", "r">>
Chars_product   == <<"p", "r", "o", "d", "u", "c", "t">>
Chars_userstor  == <<"u", "s", "e", "r", " ", "s", "t", "o", "r">>
Chars_ux        == <<"u", "x">>
Chars_usability == <<"u", "s", "a", "b", "i", "l", "i", "t", "y">>

\* Variant: the test rule is consulted before the security rule.
inferExpertRole_testFirst(task) ==
  LET lower == toLowerCase(task)
  IN  IF includes(lower, Chars_test) \/ includes(lower, Chars_qa)
        THEN "testing_expert"
      ELSE IF includes(lower, Chars_security) \/ includes(lower, Chars_vulnerab)
        THEN "security_expert"
      ELSE IF includes(lower, Chars_architect) \/ includes(lower, Chars_design)
        THEN "architecture_expert"
      ELSE IF includes(lower, Chars_doc) \/ includes(lower, Chars_readme)
        THEN "documentation_expert"
      ELSE IF includes(lower, Chars_deploy) \/ includes(lower, Chars_cicd)
        THEN "devops_expert"
      ELSE IF includes(lower, Chars_research) \/ includes(lower, Chars_paper)
        THEN "research_expert"
      ELSE IF includes(lower, Chars_product) \/ includes(lower, Chars_userstor)
        THEN "pm_expert"
      ELSE IF includes(lower, Chars_ux) \/ includes(lower, Chars_usability)
        THEN "ux_expert"
      ELSE "code_expert"

inferExpertRole(task) ==
  LET lower == toLowerCase(task)
  IN  IF includes(lower, Chars_security) \/ includes(lower, Chars_vulnerab)
        THEN "security_expert"
      ELSE IF includes(lower, Chars_architect) \/ includes(lower, Chars_design)
        THEN "architecture_expert"
      ELSE IF includes(lower, Chars_test) \/ includes(lower, Chars_qa)
        THEN "testing_expert"
      ELSE IF includes(lower, Chars_doc) \/ includes(lower, Chars_readme)
        THEN "documentation_expert"
      ELSE IF includes(lower, Chars_deploy) \/ includes(lower, Chars_cicd)
        THEN "devops_expert"
      ELSE IF includes(lower, Chars_research) \/ includes(lower, Chars_paper)
        THEN "research_expert"
      ELSE IF includes(lower, Chars_product) \/ includes(lower, Chars_userstor)
        THEN "pm_expert"
      ELSE IF includes(lower, Chars_ux) \/ includes(lower, Chars_usability)
        THEN "ux_expert"
      ELSE "code_expert"

\* String(e)
String_(e) == IF e.kind = "Error" THEN <<"Error: ">> \o e.message ELSE e.value

\* Variant: every thrown value is rendered with String(e).
ErrorText_alwaysString(e) == String_(e)

\* e instanceof Error ? e.message : String(e)
ErrorText(e) == IF e.kind = "Error" THEN e.message ELSE String_(e)

\* `${strategy} vote failed: ${...}`
VoteFailedText(strategy, e) == <<strategy, " vote failed: ">> \o ErrorText(e)

\* Variant: the override is ignored.
ConfiguredStrategies_ignoreOverride(cfg) == VOTING_STRATEGIES

\* config.strategies ?? VOTING_STRATEGIES
ConfiguredStrategies(cfg) ==
  IF "strategies" \in DOMAIN cfg THEN cfg.strategies ELSE VOTING_STRATEGIES

\* Variant: config.expertRole || inferExpertRole(config.task)
RoleFor_falsy(cfg) ==
  IF "expertRole" \in DOMAIN cfg /\ cfg.expertRole # ""
    THEN cfg.expertRole ELSE inferExpertRole(cfg.task)

\* config.expertRole ?? inferExpertRole(config.task)
RoleFor(cfg) ==
  IF "expertRole" \in DOMAIN cfg THEN cfg.expertRole ELSE inferExpertRole(cfg.task)

\* Variant: the expert is given the bare configured task.
ExpertTask_bareTask(cfg, delegation) == cfg.task

\* The prompt of step 3.
ExpertTask(cfg, delegation) ==
  <<"Evaluate this model recommendation for the task: \"">> \o cfg.task
    \o <<"\"\n\n", "Recommended: ">> \o delegation.recommended_model
    \o <<"\n", "Reasoning: ">> \o delegation.reasoning

\* Variant: the evaluation records the role that was asked for.
BuildEvaluation_requestedRole(cfg, delegation, expert, expertResult) ==
  [task             |-> cfg.task,
   recommendedModel |-> delegation.recommended_model,
   reasoning        |-> delegation.reasoning,
   alternatives     |-> [i \in 1..Len(delegation.alternatives) |->
                           [model |-> delegation.alternatives[i].model,
                            score |-> delegation.alternatives[i].score]],
   expertRole       |-> RoleFor(cfg),
   expertOutput     |-> expertResult.output,
   expertConfidence |-> expertResult.confidence]

BuildEvaluation(cfg, delegation, expert, expertResult) ==
  [task             |-> cfg.task,
   recommendedModel |-> delegation.recommended_model,
   reasoning        |-> delegation.reasoning,
   alternatives     |-> [i \in 1..Len(delegation.alternatives) |->
                           [model |-> delegation.alternatives[i].model,
                            score |-> delegation.alternatives[i].score]],
   expertRole       |-> expert.role,
   expertOutput     |-> expertResult.output,
   expertConfidence |-> expertResult.confidence]

\* The argument bags of the four gateway calls.
delegateTask_call(task, capability) ==
  [tool |-> "delegate_to_model",
   args |-> IF capability = "undefined" THEN [task |-> task]
            ELSE [task |-> task, preferred_capability |-> capability]]

\* Variant: the creation step names the execution tool.
createExpert_call_wrongTool(role) == [tool |-> "execute_expert", args |-> [role |-> role]]

createExpert_call(role) == [tool |-> "create_expert", args |-> [role |-> role]]

executeExpert_call(expertId, task) ==
  [tool |-> "execute_expert", args |-> [expertId |-> expertId, task |-> task]]

voteWithStrategy_call(proposal, strategy) ==
  [tool |-> "consensus_vote", args |-> [proposal |-> proposal, strategy |-> strategy]]

\* ------------------------------------------------------------------------
\* Inputs: the configurations of the tests and the gateway results of
\* fixtures/mock-responses.ts, each with a malformed variant.
\* ------------------------------------------------------------------------

\* "Security test": matches the security rule and the test rule.
TaskSecurityTest == <<"S", "e", "c", "u", "r", "i", "t", "y", " ", "t", "e", "s", "t">>

\* "Sum": matches no rule.
TaskPlain == <<"S", "u", "m">>

Tasks == {TaskSecurityTest, TaskPlain}

RECURSIVE SeqsUpTo(_, _)
SeqsUpTo(S, n) ==
  IF n = 0 THEN {<<>>}
  ELSE LET shorter == SeqsUpTo(S, n - 1)
       IN  shorter \cup {Append(q, x) : q \in shorter, x \in S}

OverrideLists == SeqsUpTo(VotingStrategy, MaxOverride)

Configs ==
  {[task |-> t] : t \in Tasks}
    \cup {[task |-> TaskSecurityTest, preferredCapability |-> "code",
           expertRole |-> "code_expert"]}
    \cup {[task |-> TaskPlain, strategies |-> s] : s \in OverrideLists}

\* Task texts for role inference: up to MaxWords words, each a keyword of
\* inferExpertRole or the neutral word "sum", separated by spaces; the
\* one-word texts also in upper case.
Words ==
  {Chars_security, Chars_vulnerab, Chars_architect, Chars_design, Chars_test,
   Chars_qa, Chars_doc, Chars_readme, Chars_deploy, Chars_cicd, Chars_research,
   Chars_paper, Chars_product, Chars_userstor, Chars_ux, Chars_usability,
   toLowerCase(TaskPlain)}

UpperChar(c) ==
  IF \E i \in 1..26 : LowerCase[i] = c
    THEN UpperCase[CHOOSE i \in 1..26 : LowerCase[i] = c]
    ELSE c

toUpperCase(s) == [i \in 1..Len(s) |-> UpperChar(s[i])]

RoleTasks ==
  {Join(ws, <<" ">>) : ws \in SeqsUpTo(Words, MaxWords) \ {<<>>}}
    \cup {toUpperCase(w) : w \in Words}
    \cup {TaskSecurityTest}

\* Configurations for role selection: every task text without expertRole,
\* and every one-word text with each role (and with two strings that are
\* none of the nine, which the type of expertRole admits: "wizard" and the
\* empty string); one strategy is voted.
RoleConfigs ==
  {[task |-> t, strategies |-> <<"simple_majority">>] : t \in RoleTasks}
    \cup {[task |-> t, strategies |-> <<"simple_majority">>, expertRole |-> ro] :
            t \in Words, ro \in ExpertRoles \cup {"wizard", ""}}

\* Configurations of the stage specification: both tasks, at most one
\* strategy voted, and one configuration that names its role.
StageConfigs ==
  {[task |-> t, strategies |-> st] : t \in Tasks, st \in SeqsUpTo(VotingStrategy, 1)}
    \cup {[task |-> TaskPlain, expertRole |-> "architecture_expert",
           strategies |-> <<"unanimous">>]}

\* Configurations of two runs in flight together: different tasks, disjoint
\* strategy lists.
PairConfigA ==
  [task |-> TaskSecurityTest, strategies |-> <<"simple_majority", "unanimous">>]

PairConfigB == [task |-> TaskPlain, strategies |-> <<"higher_order">>]

PairConfigs == {PairConfigA, PairConfigB}

MOCK_DELEGATE_CLAUDE ==
  [recommended_model |-> <<"claude-opus">>,
   reasoning         |-> <<"Selected claude-opus (score: 92.0)">>,
   capabilities      |-> [reasoning |-> 10, contextWindow |-> 200000,
                          codeGeneration |-> 9, speed |-> 6, cost |-> 10],
   estimated_tokens  |-> 35,
   alternatives      |->
     << [model |-> <<"claude-sonnet">>, score |-> 8800, tradeoff |-> <<"faster">>],
        [model |-> <<"codex-5.3">>, score |-> 8200, tradeoff |-> <<"different">>] >>]

MOCK_DELEGATE_WITH_GOVERNANCE ==
  [recommended_model |-> <<"claude-opus">>,
   reasoning         |-> <<"Selected claude-opus for security review">>,
   capabilities      |-> [reasoning |-> 10, contextWindow |-> 200000,
                          codeGeneration |-> 9, speed |-> 6, cost |-> 10],
   estimated_tokens  |-> 40,
   alternatives      |-> <<>>,
   governance        |-> [domain |-> "security", votingThreshold |-> "supermajority",
                          promotionReason |-> <<"elevated consensus">>]]

\* A routing result without its reasoning: fails DelegateResponseSchema.
MalformedDelegate ==
  [recommended_model |-> <<"claude-opus">>, alternatives |-> <<>>]

DelegateRaws == {MOCK_DELEGATE_CLAUDE, MOCK_DELEGATE_WITH_GOVERNANCE, MalformedDelegate}

MOCK_DELEGATE_CODEX ==
  [recommended_model |-> <<"codex-5.3">>,
   reasoning         |-> <<"Selected codex-5.3 (score: 97.0) because: complex reasoning required">>,
   capabilities      |-> [reasoning |-> 10, contextWindow |-> 400000,
                          codeGeneration |-> 10, speed |-> 7, cost |-> 5],
   estimated_tokens  |-> 28,
   alternatives      |->
     << [model |-> <<"codex-5.2">>, score |-> 9500, tradeoff |-> <<"faster">>],
        [model |-> <<"claude-opus">>, score |-> 8500, tradeoff |-> <<"different">>],
        [model |-> <<"claude-sonnet">>, score |-> 8400, tradeoff |-> <<"cheaper">>] >>]

DelegateRawsAll == DelegateRaws \cup {MOCK_DELEGATE_CODEX}

MOCK_CREATE_CODE_EXPERT ==
  [expertId |-> <<"code-expert">>, role |-> "code_expert",
   capabilities |-> <<"task_execution", "code_generation">>, status |-> "ready"]

MalformedCreate == [expertId |-> <<"code-expert">>]

CreateRaws == {MOCK_CREATE_CODE_EXPERT, MalformedCreate}

MOCK_CREATE_SECURITY_EXPERT ==
  [expertId |-> <<"security-expert">>, role |-> "security_expert",
   capabilities |-> <<"task_execution", "code_review", "research">>, status |-> "ready"]

CreateRawsAll == CreateRaws \cup {MOCK_CREATE_SECURITY_EXPERT}

\* The output is "Vitest", one character per token.
MOCK_EXECUTE_CODE ==
  [expertId |-> <<"code-expert">>, output |-> <<"V", "i", "t", "e", "s", "t">>,
   confidence |-> 88, tokensUsed |-> 1250]

MOCK_EXECUTE_TIMEOUT ==
  [expertId |-> <<"code-expert">>, output |-> <<>>, confidence |-> 0, tokensUsed |-> 0]

MalformedExecute == [expertId |-> <<"code-expert">>, output |-> <<>>]

ExecuteRaws == {MOCK_EXECUTE_CODE, MOCK_EXECUTE_TIMEOUT, MalformedExecute}

\* Expert outputs around the cut of buildProposal and up to MaxOutput
\* characters; the characters cycle through seven letters, so that no two
\* windows of the lengths that occur here hold the same text.
LongOutput(n) == [i \in 1..n |-> <<"a", "b", "c", "d", "e", "f", "g">>[(i % 7) + 1]]

OutputLengths == {1, OutputCap - 1, OutputCap, OutputCap + 1, MaxOutput}

LongExecuteRaws ==
  {[MOCK_EXECUTE_CODE EXCEPT !.output = LongOutput(n)] : n \in OutputLengths}
    \cup {MOCK_EXECUTE_TIMEOUT, MalformedExecute}

\* Routing results whose justification is one character, or MaxReasoning
\* characters, long (reasoning is z.string(), of any length).
LongDelegateRaws ==
  {[MOCK_DELEGATE_CLAUDE EXCEPT !.reasoning = LongOutput(n)] : n \in {1, MaxReasoning}}
    \cup {MOCK_DELEGATE_WITH_GOVERNANCE, MalformedDelegate}

\* Configurations of the proposal specification: at most one strategy is voted.
ProposalConfigs ==
  {[task |-> TaskPlain, strategies |-> s] : s \in SeqsUpTo(VotingStrategy, 1)}

MOCK_VOTE_MAJORITY_APPROVED ==
  [proposal           |-> <<"The model recommendation and expert analysis are sound.">>,
   strategy           |-> "simple_majority",
   decision           |-> "approved",
   approvalPercentage |-> 8330,
   voteCounts         |-> [approve |-> 5, reject |-> 1, abstain |-> 0, error |-> 0],
   votes              |-> << [role |-> "architect", decision |-> "approve",
                              confidence |-> 90, reasoning |-> <<"Sound.">>,
                              simulated |-> FALSE, error |-> FALSE] >>,
   durationMs         |-> 12500,
   simulateVotes      |-> FALSE]

\* What a gateway that looks at the strategy argument may answer: the fixture
\* with the requested strategy echoed and any decision (STRATEGY_MOCKS), the
\* fixture as it is whatever was requested (the caller of "captures vote
\* errors"), or a result whose decision is outside the enum.
VoteRaws(strategy) ==
  {[MOCK_VOTE_MAJORITY_APPROVED EXCEPT !.strategy = strategy, !.decision = d] :
      d \in Decisions}
    \cup {MOCK_VOTE_MAJORITY_APPROVED}
    \cup {[MOCK_VOTE_MAJORITY_APPROVED EXCEPT !.strategy = strategy, !.decision = "abstain"]}

\* What a failing gateway call throws.
GatewayRejections ==
  {[kind |-> "Error", message |-> <<"vote timeout">>],
   [kind |-> "string", value |-> <<"boom">>]}

\* ------------------------------------------------------------------------
\* State
\* ------------------------------------------------------------------------

\* The value of a local that has not been assigned, and of the config of a
\* run that is never started.
Unset == [unset |-> TRUE]

VARIABLES
  config,           \* config[r]: the ShowdownConfig runShowdown was given
  pc,               \* pc[r]: where run r stands
  calls,            \* calls[r]: the calls run r made on its ToolCaller, in order
  replies,          \* replies[r]: how the ToolCaller settled them, in order
  strategies,       \* locals of runShowdown, per run
  delegation,
  expert,
  expertResult,
  evaluation,
  proposal,
  strategyResults,
  errors,
  idx,              \* position of the for-of loop in strategies
  result,           \* the ShowdownResult the promise resolved with
  thrown            \* the value the promise rejected with

vars == <<config, pc, calls, replies, strategies, delegation, expert, expertResult,
          evaluation, proposal, strategyResults, errors, idx, result, thrown>>

AwaitStages == {"await_delegate", "await_create", "await_execute"}

PcValues == {"start", "await_vote", "returned", "threw"} \cup AwaitStages

InitLocals ==
  /\ pc = [r \in Runs |-> "start"]
  /\ calls = [r \in Runs |-> <<>>]
  /\ replies = [r \in Runs |-> <<>>]
  /\ strategies = [r \in Runs |-> <<>>]
  /\ delegation = [r \in Runs |-> Unset]
  /\ expert = [r \in Runs |-> Unset]
  /\ expertResult = [r \in Runs |-> Unset]
  /\ evaluation = [r \in Runs |-> Unset]
  /\ proposal = [r \in Runs |-> <<>>]
  /\ strategyResults = [r \in Runs |-> <<>>]
  /\ errors = [r \in Runs |-> <<>>]
  /\ idx = [r \in Runs |-> 0]
  /\ result = [r \in Runs |-> Unset]
  /\ thrown = [r \in Runs |-> Unset]

\* One invocation of runShowdown, with any of the configurations.
Init ==
  /\ config \in {c \in [Runs -> Configs \cup {Unset}] : c[1] # Unset /\ c[2] = Unset}
  /\ InitLocals

\* ------------------------------------------------------------------------
\* runShowdown, one action per stretch between two awaits
\* ------------------------------------------------------------------------

Issue(r, call) == calls' = [calls EXCEPT ![r] = Append(@, call)]

\* caller.call(...) settles: the promise resolves with a raw value or rejects.
Resolved(raw) == [kind |-> "resolved", raw |-> raw]

Rejected(e) == [kind |-> "rejected", error |-> e]

Settle(r, reply) == replies' = [replies EXCEPT ![r] = Append(@, reply)]

\* Variant: a fatal failure is swallowed into a partial result.
Propagate_partialResult(r, e) ==
  /\ pc' = [pc EXCEPT ![r] = "returned"]
  /\ errors' = [errors EXCEPT ![r] = Append(@, ErrorText(e))]
  /\ result' = [result EXCEPT ![r] =
                  [evaluation |-> evaluation[r], strategyResults |-> <<>>,
                   strategyAgreement |-> Zero,
                   errors |-> Append(errors[r], ErrorText(e))]]
  /\ UNCHANGED <<config, calls, strategies, delegation, expert, expertResult,
                 evaluation, proposal, strategyResults, idx, thrown>>

\* An exception leaves runShowdown: the promise rejects, nothing else happens.
Propagate(r, e) ==
  /\ pc' = [pc EXCEPT ![r] = "threw"]
  /\ thrown' = [thrown EXCEPT ![r] = e]
  /\ UNCHANGED <<config, calls, strategies, delegation, expert, expertResult,
                 evaluation, proposal, strategyResults, errors, idx, result>>

\* Variant: the voting calls are all issued on entering the loop and then
\* awaited one after the other.
Continue_fanOut(r, eval, prop, results, errs, next) ==
  /\ strategyResults' = [strategyResults EXCEPT ![r] = results]
  /\ errors' = [errors EXCEPT ![r] = errs]
  /\ IF next <= Len(strategies[r])
       THEN /\ calls' = [calls EXCEPT ![r] =
                           IF next = 1
                             THEN @ \o [i \in 1..Len(strategies[r]) |->
                                          voteWithStrategy_call(prop, strategies[r][i])]
                             ELSE @]
            /\ idx' = [idx EXCEPT ![r] = next]
            /\ pc' = [pc EXCEPT ![r] = "await_vote"]
            /\ UNCHANGED result
       ELSE /\ result' = [result EXCEPT ![r] =
                            [evaluation        |-> eval,
                             strategyResults   |-> results,
                             strategyAgreement |-> computeAgreement(results),
                             errors            |-> errs]]
            /\ pc' = [pc EXCEPT ![r] = "returned"]
            /\ UNCHANGED <<calls, idx>>

\* Variant: the agreement is taken over all attempted strategies, the failed
\* ones included in the denominator.
Continue_countFailures(r, eval, prop, results, errs, next) ==
  /\ strategyResults' = [strategyResults EXCEPT ![r] = results]
  /\ errors' = [errors EXCEPT ![r] = errs]
  /\ IF next <= Len(strategies[r])
       THEN /\ Issue(r, voteWithStrategy_call(prop, strategies[r][next]))
            /\ idx' = [idx EXCEPT ![r] = next]
            /\ pc' = [pc EXCEPT ![r] = "await_vote"]
            /\ UNCHANGED result
       ELSE /\ result' = [result EXCEPT ![r] =
                            [evaluation        |-> eval,
                             strategyResults   |-> results,
                             strategyAgreement |->
                               IF Len(results) = 0 THEN Zero
                               ELSE Quotient(Math_max(CountDecision(results, "approved"),
                                                      CountDecision(results, "rejected")),
                                             Len(results) + Len(errs)),
                             errors            |-> errs]]
            /\ pc' = [pc EXCEPT ![r] = "returned"]
            /\ UNCHANGED <<calls, idx>>

\* The for-of loop takes its next strategy and awaits its vote, or, the list
\* exhausted, the function computes the agreement and returns.  `results`
\* and `errs` are the two lists as the iteration just finished left them.
Continue(r, eval, prop, results, errs, next) ==
  /\ strategyResults' = [strategyResults EXCEPT ![r] = results]
  /\ errors' = [errors EXCEPT ![r] = errs]
  /\ IF next <= Len(strategies[r])
       THEN /\ Issue(r, voteWithStrategy_call(prop, strategies[r][next]))
            /\ idx' = [idx EXCEPT ![r] = next]
            /\ pc' = [pc EXCEPT ![r] = "await_vote"]
            /\ UNCHANGED result
       ELSE /\ result' = [result EXCEPT ![r] =
                            [evaluation        |-> eval,
                             strategyResults   |-> results,
                             strategyAgreement |-> computeAgreement(results),
                             errors            |-> errs]]
            /\ pc' = [pc EXCEPT ![r] = "returned"]
            /\ UNCHANGED <<calls, idx>>

\* Entry up to the first await: the routing call is issued.
Start(r) ==
  /\ pc[r] = "start"
  /\ config[r] # Unset
  /\ errors' = [errors EXCEPT ![r] = <<>>]
  /\ strategies' = [strategies EXCEPT ![r] = ConfiguredStrategies(config[r])]
  /\ Issue(r, delegateTask_call(config[r].task,
                IF "preferredCapability" \in DOMAIN config[r]
                  THEN config[r].preferredCapability ELSE "undefined"))
  /\ pc' = [pc EXCEPT ![r] = "await_delegate"]
  /\ UNCHANGED <<config, delegation, expert, expertResult, evaluation, proposal,
                 strategyResults, idx, result, thrown, replies>>

\* The routing call resolved: validate, pick the role, issue the creation call.
DelegateResolvedWith(r, raws) ==
  /\ pc[r] = "await_delegate"
  /\ \E raw \in raws :
       LET parsed == DelegateResponseSchema_parse(raw)
       IN  /\ Settle(r, Resolved(raw))
           /\ IF parsed.ok
               THEN /\ delegation' = [delegation EXCEPT ![r] = parsed.value]
                    /\ Issue(r, createExpert_call(RoleFor(config[r])))
                    /\ pc' = [pc EXCEPT ![r] = "await_create"]
                    /\ UNCHANGED <<config, strategies, expert, expertResult, evaluation,
                                   proposal, strategyResults, errors, idx, result, thrown>>
               ELSE Propagate(r, parsed.error)

DelegateResolved(r) == DelegateResolvedWith(r, DelegateRaws)

\* The same step, the router justifying itself at length.
DelegateResolvedLong(r) == DelegateResolvedWith(r, LongDelegateRaws)

\* The same step, the gateway answering with any of the routing fixtures.
DelegateResolvedAny(r) == DelegateResolvedWith(r, DelegateRawsAll)

\* The creation call resolved: validate, build the prompt, issue the execution call.
CreateResolvedWith(r, raws) ==
  /\ pc[r] = "await_create"
  /\ \E raw \in raws :
       LET parsed == CreateExpertResponseSchema_parse(raw)
       IN  /\ Settle(r, Resolved(raw))
           /\ IF parsed.ok
               THEN /\ expert' = [expert EXCEPT ![r] = parsed.value]
                    /\ Issue(r, executeExpert_call(parsed.value.expertId,
                                                   ExpertTask(config[r], delegation[r])))
                    /\ pc' = [pc EXCEPT ![r] = "await_execute"]
                    /\ UNCHANGED <<config, strategies, delegation, expertResult, evaluation,
                                   proposal, strategyResults, errors, idx, result, thrown>>
               ELSE Propagate(r, parsed.error)

CreateResolved(r) == CreateResolvedWith(r, CreateRaws)

\* The same step, the gateway answering with either expert fixture.
CreateResolvedAny(r) == CreateResolvedWith(r, CreateRawsAll)

\* The execution call resolved: validate, build the evaluation and the
\* proposal, and enter the voting loop; `raws` is what the gateway may answer.
ExecuteResolvedWith(r, raws) ==
  /\ pc[r] = "await_execute"
  /\ \E raw \in raws :
       LET parsed == ExecuteExpertResponseSchema_parse(raw)
       IN  /\ Settle(r, Resolved(raw))
           /\ IF parsed.ok
               THEN LET eval == BuildEvaluation(config[r], delegation[r], expert[r],
                                                parsed.value)
                        prop == buildProposal(delegation[r], parsed.value)
                    IN  /\ expertResult' = [expertResult EXCEPT ![r] = parsed.value]
                        /\ evaluation' = [evaluation EXCEPT ![r] = eval]
                        /\ proposal' = [proposal EXCEPT ![r] = prop]
                        /\ Continue(r, eval, prop, <<>>, errors[r], 1)
                        /\ UNCHANGED <<config, strategies, delegation, expert, thrown>>
               ELSE Propagate(r, parsed.error)

ExecuteResolved(r) == ExecuteResolvedWith(r, ExecuteRaws)

\* The same step, the expert answering at length.
ExecuteResolvedLong(r) == ExecuteResolvedWith(r, LongExecuteRaws)

\* Variant: the core gives up on a stage call by itself, without a reply.
StageRejected_timeout(r) ==
  /\ pc[r] \in AwaitStages
  /\ \E e \in GatewayRejections : Propagate(r, e) /\ UNCHANGED replies

\* The routing, creation or execution call rejected: nothing catches it.
StageRejected(r) ==
  /\ pc[r] \in AwaitStages
  /\ \E e \in GatewayRejections : Settle(r, Rejected(e)) /\ Propagate(r, e)

\* Variant: the catch block is empty.
CatchVote_silent(errs, strategy, e) == errs

\* catch (e) { errors.push(...) } of the voting loop
CatchVote(errs, strategy, e) == Append(errs, VoteFailedText(strategy, e))

\* Variant: the result of a voting call is used as it came, unvalidated.
VoteResolved_noValidation(r) ==
  /\ pc[r] = "await_vote"
  /\ \E raw \in VoteRaws(strategies[r][idx[r]]) :
       /\ Settle(r, Resolved(raw))
       /\ Continue(r, evaluation[r], proposal[r],
                   Append(strategyResults[r], toStrategyResult(raw)),
                   errors[r], idx[r] + 1)
       /\ UNCHANGED <<config, strategies, delegation, expert, expertResult,
                      evaluation, proposal, thrown>>

\* Variant: the proposal is rebuilt after each vote, the decision just
\* received added to it.
VoteResolved_rebuild(r) ==
  /\ pc[r] = "await_vote"
  /\ \E raw \in VoteRaws(strategies[r][idx[r]]) :
       LET parsed == VoteResponseSchema_parse(raw)
       IN  /\ Settle(r, Resolved(raw))
           /\ IF parsed.ok
                THEN LET prop == proposal[r] \o <<"\n", parsed.value.decision>>
                     IN  /\ proposal' = [proposal EXCEPT ![r] = prop]
                         /\ Continue(r, evaluation[r], prop,
                                     Append(strategyResults[r],
                                            toStrategyResult(parsed.value)),
                                     errors[r], idx[r] + 1)
                ELSE /\ UNCHANGED proposal
                     /\ Continue(r, evaluation[r], proposal[r], strategyResults[r],
                                 CatchVote(errors[r], strategies[r][idx[r]], parsed.error),
                                 idx[r] + 1)
           /\ UNCHANGED <<config, strategies, delegation, expert, expertResult,
                          evaluation, thrown>>

\* Variant: a new result is put at the front of the list (unshift for push).
VoteResolved_unshift(r) ==
  /\ pc[r] = "await_vote"
  /\ \E raw \in VoteRaws(strategies[r][idx[r]]) :
       LET parsed == VoteResponseSchema_parse(raw)
       IN  /\ Settle(r, Resolved(raw))
           /\ IF parsed.ok
                THEN Continue(r, evaluation[r], proposal[r],
                              <<toStrategyResult(parsed.value)>> \o strategyResults[r],
                              errors[r], idx[r] + 1)
                ELSE Continue(r, evaluation[r], proposal[r], strategyResults[r],
                              CatchVote(errors[r], strategies[r][idx[r]], parsed.error),
                              idx[r] + 1)
           /\ UNCHANGED <<config, strategies, delegation, expert, expertResult,
                          evaluation, proposal, thrown>>

\* A voting call resolved: a valid result is projected and pushed, an invalid
\* one is caught like a rejection; the loop goes on.
VoteResolved(r) ==
  /\ pc[r] = "await_vote"
  /\ \E raw \in VoteRaws(strategies[r][idx[r]]) :
       LET parsed == VoteResponseSchema_parse(raw)
       IN  /\ Settle(r, Resolved(raw))
           /\ IF parsed.ok
                THEN Continue(r, evaluation[r], proposal[r],
                              Append(strategyResults[r], toStrategyResult(parsed.value)),
                              errors[r], idx[r] + 1)
                ELSE Continue(r, evaluation[r], proposal[r], strategyResults[r],
                              CatchVote(errors[r], strategies[r][idx[r]], parsed.error),
                              idx[r] + 1)
           /\ UNCHANGED <<config, strategies, delegation, expert, expertResult,
                          evaluation, proposal, thrown>>

\* Variant: a rejected voting call is not caught.
VoteRejected_abort(r) ==
  /\ pc[r] = "await_vote"
  /\ \E e \in GatewayRejections : Settle(r, Rejected(e)) /\ Propagate(r, e)

\* Variant: a rejected voting call is reattempted once before it is recorded.
VoteRejected_retry(r) ==
  /\ pc[r] = "await_vote"
  /\ \E e \in GatewayRejections :
       /\ Settle(r, Rejected(e))
       /\ IF replies[r][Len(replies[r])].kind = "resolved"
            THEN /\ Issue(r, calls[r][Len(calls[r])])
                 /\ UNCHANGED <<strategyResults, errors, idx, pc, result>>
            ELSE Continue(r, evaluation[r], proposal[r], strategyResults[r],
                          CatchVote(errors[r], strategies[r][idx[r]], e), idx[r] + 1)
  /\ UNCHANGED <<config, strategies, delegation, expert, expertResult,
                 evaluation, proposal, thrown>>

\* Variant: the errors array is declared at module scope, one array for all
\* the runs (held here by run 1).
VoteRejected_sharedErrors(r) ==
  /\ pc[r] = "await_vote"
  /\ \E e \in GatewayRejections :
       /\ Settle(r, Rejected(e))
       /\ Continue(r, evaluation[r], proposal[r], strategyResults[r],
                   CatchVote(errors[1], strategies[r][idx[r]], e), idx[r] + 1)
  /\ UNCHANGED <<config, strategies, delegation, expert, expertResult,
                 evaluation, proposal, thrown>>

\* A voting call rejected: the error is caught and recorded; the loop goes on.
VoteRejected(r) ==
  /\ pc[r] = "await_vote"
  /\ \E e \in GatewayRejections :
       /\ Settle(r, Rejected(e))
       /\ Continue(r, evaluation[r], proposal[r], strategyResults[r],
                   CatchVote(errors[r], strategies[r][idx[r]], e), idx[r] + 1)
  /\ UNCHANGED <<config, strategies, delegation, expert, expertResult,
                 evaluation, proposal, thrown>>

Next ==
  \/ \E r \in Runs : Start(r)
  \/ \E r \in Runs : DelegateResolved(r)
  \/ \E r \in Runs : CreateResolved(r)
  \/ \E r \in Runs : ExecuteResolved(r)
  \/ \E r \in Runs : StageRejected(r)
  \/ \E r \in Runs : VoteResolved(r)
  \/ \E r \in Runs : VoteRejected(r)

Spec == Init /\ [][Next]_vars

\* The steps of run r: the stretch the event loop runs when the run is
\* started or when its outstanding gateway call settles.
RunStep(r) ==
  \/ Start(r)
  \/ DelegateResolved(r)
  \/ CreateResolved(r)
  \/ ExecuteResolved(r)
  \/ StageRejected(r)
  \/ VoteResolved(r)
  \/ VoteRejected(r)

\* The runs of Spec against a gateway whose every call eventually resolves or
\* rejects, on an event loop that runs every continuation that is ready.
SpecLive == Spec /\ \A r \in Runs : WF_vars(RunStep(r))

\* One invocation of runShowdown against a gateway that answers the routing
\* and the creation call with any of the fixtures.
InitStages ==
  /\ config \in {c \in [Runs -> StageConfigs \cup {Unset}] : c[1] # Unset /\ c[2] = Unset}
  /\ InitLocals

NextStages ==
  \/ \E r \in Runs : Start(r)
  \/ \E r \in Runs : DelegateResolvedAny(r)
  \/ \E r \in Runs : CreateResolvedAny(r)
  \/ \E r \in Runs : ExecuteResolved(r)
  \/ \E r \in Runs : StageRejected(r)
  \/ \E r \in Runs : VoteResolved(r)
  \/ \E r \in Runs : VoteRejected(r)

SpecStages == InitStages /\ [][NextStages]_vars

\* Two invocations of runShowdown on one event loop: their stretches between
\* awaits interleave in any order.
InitPair ==
  /\ config \in [Runs -> PairConfigs]
  /\ InitLocals

SpecPair == InitPair /\ [][Next]_vars

\* One invocation of runShowdown whose expert answers at length.
InitProposal ==
  /\ config \in {c \in [Runs -> ProposalConfigs \cup {Unset}] : c[1] # Unset /\ c[2] = Unset}
  /\ InitLocals

NextProposal ==
  \/ \E r \in Runs : Start(r)
  \/ \E r \in Runs : DelegateResolved(r)
  \/ \E r \in Runs : CreateResolved(r)
  \/ \E r \in Runs : ExecuteResolvedLong(r)
  \/ \E r \in Runs : StageRejected(r)
  \/ \E r \in Runs : VoteResolved(r)
  \/ \E r \in Runs : VoteRejected(r)

SpecProposal == InitProposal /\ [][NextProposal]_vars

\* One invocation of runShowdown whose router and expert answer at length.
NextLength ==
  \/ \E r \in Runs : Start(r)
  \/ \E r \in Runs : DelegateResolvedLong(r)
  \/ \E r \in Runs : CreateResolved(r)
  \/ \E r \in Runs : ExecuteResolvedLong(r)
  \/ \E r \in Runs : StageRejected(r)
  \/ \E r \in Runs : VoteResolved(r)
  \/ \E r \in Runs : VoteRejected(r)

SpecLength == InitProposal /\ [][NextLength]_vars

\* One invocation of runShowdown over the task texts of role inference.
InitRole ==
  /\ config \in {c \in [Runs -> RoleConfigs \cup {Unset}] : c[1] # Unset /\ c[2] = Unset}
  /\ InitLocals

SpecRole == InitRole /\ [][Next]_vars

TypeOK ==
  \A r \in Runs :
    /\ pc[r] \in PcValues
    /\ idx[r] \in 0..Len(strategies[r])
    /\ Len(strategyResults[r]) + Len(errors[r]) <= Len(strategies[r])

\* ------------------------------------------------------------------------
\* Vocabulary of the properties
\* ------------------------------------------------------------------------

CanonicalOrder ==
  <<"simple_majority", "supermajority", "unanimous", "proof_of_learning", "higher_order">>

\* The strategies a configuration asks for.
Requested(cfg) == IF "strategies" \in DOMAIN cfg THEN cfg.strategies ELSE CanonicalOrder

Returned(r) == pc[r] = "returned"

DefaultRun(r) == config[r] # Unset /\ "strategies" \notin DOMAIN config[r]

ToolsCalled(r) == [i \in 1..Len(calls[r]) |-> calls[r][i].tool]

CountTool(r, t) == Cardinality({i \in 1..Len(calls[r]) : calls[r][i].tool = t})

\* The strategy arguments of the voting calls made so far, in call order.
VoteStrategyArgs(r) ==
  LET votes == SelectSeq(calls[r], LAMBDA c : c.tool = "consensus_vote")
  IN  [i \in 1..Len(votes) |-> votes[i].args.strategy]

\* The reply to the i-th call is a failure: a rejection, or a value the
\* schema of that call's stage rejects.
ParseReply(i, raw) ==
  CASE i = 1 -> DelegateResponseSchema_parse(raw)
    [] i = 2 -> CreateExpertResponseSchema_parse(raw)
    [] i = 3 -> ExecuteExpertResponseSchema_parse(raw)
    [] OTHER -> VoteResponseSchema_parse(raw)

ReplyFailed(r, i) ==
  replies[r][i].kind = "rejected" \/ ~ParseReply(i, replies[r][i].raw).ok

\* The value thrown at the await of the i-th call, when its reply is a failure.
FailureOf(r, i) ==
  IF replies[r][i].kind = "rejected" THEN replies[r][i].error
  ELSE ParseReply(i, replies[r][i].raw).error

FailureMessage(e) == IF e.kind = "Error" THEN e.message ELSE e.value

FailedVotes(r) == {i \in 4..Len(replies[r]) : ReplyFailed(r, i)}

\* ------------------------------------------------------------------------
\* Properties
\* ------------------------------------------------------------------------

\* C1: in every returned ShowdownResult, the number of strategy results plus
\* the number of errors is the number of strategies requested (the length
\* of config.strategies, 5 without an override).
C1_ResultsPlusErrors ==
  \A r \in Runs :
    Returned(r) =>
      Len(result[r].strategyResults) + Len(result[r].errors)
        = (IF "strategies" \in DOMAIN config[r] THEN Len(config[r].strategies) ELSE 5)

\* A default run returned with three results and two errors.
C1_Witness ==
  /\ Returned(1) /\ DefaultRun(1)
  /\ Len(result[1].strategyResults) = 3
  /\ Len(result[1].errors) = 2

\* C2: the gateway is called in the order routing, creation, execution, then
\* voting only; a returned run made exactly 3 + N calls, N the number of
\* configured strategies.
C2_ToolOrder ==
  \A r \in Runs :
    /\ \A i \in 1..Len(calls[r]) :
         ToolsCalled(r)[i] = (CASE i = 1 -> "delegate_to_model"
                                [] i = 2 -> "create_expert"
                                [] i = 3 -> "execute_expert"
                                [] OTHER -> "consensus_vote")
    /\ Returned(r) => Len(calls[r]) = 3 + Len(Requested(config[r]))

\* A run with a two-strategy override returned after five calls.
C2_Witness ==
  /\ Returned(1)
  /\ ~DefaultRun(1) /\ Len(config[1].strategies) = 2
  /\ ToolsCalled(1) = <<"delegate_to_model", "create_expert", "execute_expert",
                        "consensus_vote", "consensus_vote">>

\* C3: the strategy arguments of the voting calls are, element by element,
\* the configured list (the canonical five without an override); they are a
\* prefix of it while the run votes and all of it when the run returns, and
\* when no vote failed there are as many strategy results as strategies.
C3_StrategyArguments ==
  \A r \in Runs :
    LET args == VoteStrategyArgs(r)
        want == Requested(config[r])
    IN  /\ Len(args) > 0 =>
             /\ Len(args) <= Len(want)
             /\ args = SubSeq(want, 1, Len(args))
        /\ Returned(r) =>
             /\ args = want
             /\ result[r].errors = <<>> => Len(result[r].strategyResults) = Len(want)

\* An override that is not in canonical order was voted in its own order.
C3_Witness ==
  /\ Returned(1)
  /\ ~DefaultRun(1) /\ config[1].strategies = <<"unanimous", "simple_majority">>
  /\ VoteStrategyArgs(1) = <<"unanimous", "simple_majority">>
  /\ Len(result[1].strategyResults) = 2

\* C4: a failed voting call never aborts the run nor the remaining voting
\* calls: once a vote has failed the run is still voting or has returned,
\* the next configured strategy has been called, the run returns exactly when
\* all 3 + N replies are in, and one failure out of five leaves 4 results and
\* 1 error.
C4_VoteFailureIsolated ==
  \A r \in Runs :
    FailedVotes(r) # {} =>
      LET N == Len(Requested(config[r]))
      IN  /\ pc[r] \in {"await_vote", "returned"}
          /\ Len(calls[r]) = Min(Len(replies[r]) + 1, 3 + N)
          /\ Returned(r) <=> Len(replies[r]) = 3 + N
          /\ (Returned(r) /\ N = 5 /\ Cardinality(FailedVotes(r)) = 1) =>
               /\ Len(result[r].strategyResults) = 4
               /\ Len(result[r].errors) = 1

\* The third of five voting calls was rejected, the other four were voted.
C4_Witness ==
  /\ Returned(1) /\ DefaultRun(1)
  /\ FailedVotes(1) = {6}
  /\ replies[1][6].kind = "rejected"
  /\ Len(result[1].strategyResults) = 4

\* C5: the errors list is, in call order, one string
\* "<strategy> vote failed: <message>" per failed voting call, with the
\* strategy passed to that call and the message of its failure.
RECURSIVE ExpectedErrors(_, _)
ExpectedErrors(r, n) ==
  IF n <= 3 THEN <<>>
  ELSE IF ReplyFailed(r, n)
    THEN Append(ExpectedErrors(r, n - 1),
                <<calls[r][n].args.strategy, " vote failed: ">>
                  \o FailureMessage(FailureOf(r, n)))
    ELSE ExpectedErrors(r, n - 1)

C5_ErrorStrings ==
  \A r \in Runs :
    /\ errors[r] = ExpectedErrors(r, Len(replies[r]))
    /\ Returned(r) => result[r].errors = errors[r]

\* Two voting calls failed, the first with an Error, the second with a value
\* that is not an Error.
C5_Witness ==
  /\ Returned(1)
  /\ result[1].errors = << <<"supermajority", " vote failed: ", "vote timeout">>,
                           <<"higher_order", " vote failed: ", "boom">> >>

\* C6: when the routing, creation or execution call fails (or its result is
\* invalid), the run fails with that error at once: there is no result, no
\* further gateway call, and nothing in the errors list.
C6_FatalStages ==
  \A r \in Runs :
    \A i \in 1..Min(3, Len(replies[r])) :
      ReplyFailed(r, i) =>
        /\ pc[r] = "threw"
        /\ thrown[r] = FailureOf(r, i)
        /\ result[r] = Unset
        /\ Len(calls[r]) = i /\ Len(replies[r]) = i
        /\ errors[r] = <<>>

\* The creation call returned a value its schema rejects.
C6_Witness ==
  /\ pc[1] = "threw"
  /\ Len(replies[1]) = 2
  /\ replies[1][2].kind = "resolved"
  /\ thrown[1].kind = "Error"

\* C7: no call is reattempted: routing, creation and execution are called at
\* most once (once in a returned run), there is one voting call per position
\* of the strategy list reached, and a returned run made 3 + N calls.
C7_NoRetry ==
  \A r \in Runs :
    LET N == Len(Requested(config[r]))
    IN  /\ \A t \in {"delegate_to_model", "create_expert", "execute_expert"} :
             /\ CountTool(r, t) <= 1
             /\ Returned(r) => CountTool(r, t) = 1
        /\ CountTool(r, "consensus_vote") = idx[r]
        /\ idx[r] <= N
        /\ Returned(r) => CountTool(r, "consensus_vote") = N /\ Len(calls[r]) = 3 + N

\* A default run returned after eight calls although votes failed.
C7_Witness ==
  /\ Returned(1) /\ DefaultRun(1)
  /\ Len(calls[1]) = 8
  /\ Cardinality(FailedVotes(1)) >= 2

\* C8: when stages 1-3 succeed and all five voting calls fail, the run still
\* returns: no strategy results, agreement 0, five errors.
C8_AllVotesFail ==
  \A r \in Runs :
    (DefaultRun(r) /\ FailedVotes(r) = 4..8) =>
      /\ Returned(r)
      /\ result[r].strategyResults = <<>>
      /\ result[r].strategyAgreement = [num |-> 0, den |-> 1]
      /\ Len(result[r].errors) = 5

C8_Witness ==
  /\ DefaultRun(1) /\ FailedVotes(1) = 4..8
  /\ Returned(1)
  /\ \E i \in 4..8 : replies[1][i].kind = "resolved"

\* C9: the agreement of a returned result is 0 for no strategy results and
\* otherwise max(#approved, #rejected) / #results; pending and timeout count
\* in the denominator only.
DecisionCount(results, d) ==
  Cardinality({i \in 1..Len(results) : results[i].decision = d})

C9_AgreementValue ==
  \A r \in Runs :
    Returned(r) =>
      LET results  == result[r].strategyResults
          a        == DecisionCount(results, "approved")
          j        == DecisionCount(results, "rejected")
          majority == IF a >= j THEN a ELSE j
          g        == result[r].strategyAgreement
      IN  /\ g.den > 0
          /\ Len(results) = 0 => g.num = 0
          /\ Len(results) > 0 => g.num * Len(results) = majority * g.den

\* Three approved, one rejected and one pending give 3/5; and the 0.8 of
\* the tests.
C9_Witness ==
  /\ Returned(1)
  /\ Len(result[1].strategyResults) = 5
  /\ DecisionCount(result[1].strategyResults, "approved") = 3
  /\ DecisionCount(result[1].strategyResults, "pending") = 1
  /\ result[1].strategyAgreement = [num |-> 3, den |-> 5]

AllDecide(results, d) ==
  Len(results) >= 1 /\ \A i \in 1..Len(results) : results[i].decision = d

\* C10 as stated: N >= 1 results that all carry the same decision, whichever
\* of the four it is, have agreement 1.0.
C10_Original ==
  \A r \in Runs :
    Returned(r) =>
      \A d \in Decisions :
        AllDecide(result[r].strategyResults, d) =>
          result[r].strategyAgreement = [num |-> 1, den |-> 1]

\* C10 (amended): N >= 1 results that are all approved, or all rejected, have
\* agreement 1.0; N >= 1 results that are all pending, or all timeout, have
\* agreement 0.
C10_UnanimousAgreement ==
  \A r \in Runs :
    Returned(r) =>
      /\ \A d \in {"approved", "rejected"} :
           AllDecide(result[r].strategyResults, d) =>
             result[r].strategyAgreement = [num |-> 1, den |-> 1]
      /\ \A d \in {"pending", "timeout"} :
           AllDecide(result[r].strategyResults, d) =>
             result[r].strategyAgreement = [num |-> 0, den |-> 1]

\* Five results, all rejected.
C10_Witness ==
  /\ Returned(1)
  /\ Len(result[1].strategyResults) = 5
  /\ AllDecide(result[1].strategyResults, "rejected")

\* C11: the agreement of a returned result is taken over the successful
\* votes only: with a approved and j rejected among the s voting calls that
\* succeeded, it is max(a, j) / s (0 when s = 0), whatever the number of
\* voting calls that failed, and it is a ratio between 0 and 1; it is the
\* value computeAgreement gives for the result's own strategyResults.
SucceededVotes(r) == {i \in 4..Len(replies[r]) : ~ReplyFailed(r, i)}

SucceededWith(r, d) == {i \in SucceededVotes(r) : replies[r][i].raw.decision = d}

C11_AgreementOverSuccesses ==
  \A r \in Runs :
    Returned(r) =>
      LET s        == Cardinality(SucceededVotes(r))
          a        == Cardinality(SucceededWith(r, "approved"))
          j        == Cardinality(SucceededWith(r, "rejected"))
          majority == IF a >= j THEN a ELSE j
          g        == result[r].strategyAgreement
      IN  /\ g.den > 0 /\ 0 <= g.num /\ g.num <= g.den
          /\ g.num * (IF s = 0 THEN 1 ELSE s) = majority * g.den
          /\ g = computeAgreement(result[r].strategyResults)

\* Two of five voting calls failed and the three others approved: the
\* agreement is 3/3, not 3/5.
C11_Witness ==
  /\ Returned(1)
  /\ Cardinality(FailedVotes(1)) = 2
  /\ Cardinality(SucceededWith(1, "approved")) = 3
  /\ result[1].strategyAgreement = [num |-> 1, den |-> 1]

\* C12: in every returned ShowdownResult the strategy values of the entries
\* of strategyResults are pairwise distinct, for any validated vote
\* responses.  Stated for every configured list that names no strategy twice
\* (the default list, or an override that is a subset of the five).
NoRepeat(list) == \A i, j \in 1..Len(list) : i # j => list[i] # list[j]

C12_DistinctStrategies ==
  \A r \in Runs :
    (Returned(r) /\ NoRepeat(Requested(config[r]))) =>
      LET results == result[r].strategyResults
      IN  \A i, j \in 1..Len(results) :
            i # j => results[i].strategy # results[j].strategy

\* C13: strategyResults holds exactly the projections of the successful
\* voting calls, in the order of the calls: its k-th entry is the projection
\* (strategy, decision, approvalPercentage, voteCounts, durationMs) of the
\* response to the k-th successful voting call; a step only ever appends to
\* it, and the returned result carries the same list.
Projection(raw) ==
  [strategy           |-> raw.strategy,
   decision           |-> raw.decision,
   approvalPercentage |-> raw.approvalPercentage,
   voteCounts         |-> raw.voteCounts,
   durationMs         |-> raw.durationMs]

RECURSIVE ExpectedResults(_, _)
ExpectedResults(r, n) ==
  IF n <= 3 THEN <<>>
  ELSE IF ReplyFailed(r, n) THEN ExpectedResults(r, n - 1)
  ELSE Append(ExpectedResults(r, n - 1), Projection(replies[r][n].raw))

IsPrefix(s, t) == Len(s) <= Len(t) /\ SubSeq(t, 1, Len(s)) = s

C13_ResultsInInvocationOrder ==
  /\ [](\A r \in Runs :
          /\ strategyResults[r] = ExpectedResults(r, Len(replies[r]))
          /\ Returned(r) => result[r].strategyResults = strategyResults[r])
  /\ [][\A r \in Runs : IsPrefix(strategyResults[r], strategyResults'[r])]_vars

\* The second of five voting calls failed; the four results are those of
\* the calls 1, 3, 4 and 5, in that order, each with a different decision.
C13_Witness ==
  /\ Returned(1)
  /\ DefaultRun(1)
  /\ FailedVotes(1) = {5}
  /\ Len(result[1].strategyResults) = 4
  /\ [i \in 1..4 |-> result[1].strategyResults[i].decision]
       = <<"approved", "rejected", "pending", "timeout">>
  /\ [i \in 1..4 |-> result[1].strategyResults[i].strategy]
       = <<"simple_majority", "unanimous", "proof_of_learning", "higher_order">>

\* C14: role inference is a first-match-wins scan of the ordered keyword
\* table over the lower-cased task text: the role sent to the creation call
\* of a run without expertRole is the role of the earliest rule one of whose
\* keywords occurs in the lower-cased text, and code_expert when no rule
\* matches; "Security test" (security rule and test rule) gives
\* security_expert.
KeywordTable ==
  << [role |-> "security_expert",
      keywords |-> {<<"s", "e", "c", "u", "r", "i", "t", "y">>,
                    <<"v", "u", "l", "n", "e", "r", "a", "b">>}],
     [role |-> "architecture_expert",
      keywords |-> {<<"a", "r", "c", "h", "i", "t", "e", "c", "t">>,
                    <<"d", "e", "s", "i", "g", "n">>}],
     [role |-> "testing_expert",
      keywords |-> {<<"t", "e", "s", "t">>,
                    <<"q", "a">>}],
     [role |-> "documentation_expert",
      keywords |-> {<<"d", "o", "c">>,
                    <<"r", "e", "a", "d", "m", "e">>}],
     [role |-> "devops_expert",
      keywords |-> {<<"d", "e", "p", "l", "o", "y">>,
                    <<"c", "i", "/", "c", "d">>}],
     [role |-> "research_expert",
      keywords |-> {<<"r", "e", "s", "e", "a", "r", "c", "h">>,
                    <<"p", "a", "p", "e", "r">>}],
     [role |-> "pm_expert",
      keywords |-> {<<"p", "r", "o", "d", "u", "c", "t">>,
                    <<"u", "s", "e", "r", " ", "s", "t", "o", "r">>}],
     [role |-> "ux_expert",
      keywords |-> {<<"u", "x">>,
                    <<"u", "s", "a", "b", "i", "l", "i", "t", "y">>}] >>

RuleMatches(i, text) ==
  \E kw \in KeywordTable[i].keywords : includes(toLowerCase(text), kw)

FirstMatchRole(text) ==
  IF \E i \in 1..Len(KeywordTable) : RuleMatches(i, text)
    THEN LET first == CHOOSE i \in 1..Len(KeywordTable) :
                        /\ RuleMatches(i, text)
                        /\ \A k \in 1..(i - 1) : ~RuleMatches(k, text)
         IN  KeywordTable[first].role
    ELSE "code_expert"

Inferring(r) == config[r] # Unset /\ "expertRole" \notin DOMAIN config[r]

CreationRole(r) == calls[r][2].args.role

C14_FirstMatchWins ==
  \A r \in Runs :
    (Inferring(r) /\ Len(calls[r]) >= 2) =>
      /\ CreationRole(r) = FirstMatchRole(config[r].task)
      /\ config[r].task = TaskSecurityTest => CreationRole(r) = "security_expert"

\* "paper qa": the first word matches the research rule, the second the
\* test rule, which comes earlier in the table.
C14_Witness ==
  /\ Len(calls[1]) >= 2
  /\ Inferring(1)
  /\ config[1].task = <<"p", "a", "p", "e", "r", " ", "q", "a">>
  /\ CreationRole(1) = "testing_expert"

\* C15: the role argument of the creation call is config.expertRole whenever
\* expertRole is supplied, whatever the task text contains, and otherwise
\* the first-match role of the task text.
C15_SuppliedRoleWins ==
  \A r \in Runs :
    Len(calls[r]) >= 2 =>
      CreationRole(r) = (IF "expertRole" \in DOMAIN config[r]
                           THEN config[r].expertRole
                           ELSE FirstMatchRole(config[r].task))

\* The task says "security", the configuration says ux_expert.
C15_Witness ==
  /\ Len(calls[1]) >= 2
  /\ config[1].task = <<"s", "e", "c", "u", "r", "i", "t", "y">>
  /\ "expertRole" \in DOMAIN config[1]
  /\ config[1].expertRole = "ux_expert"
  /\ CreationRole(1) = "ux_expert"

\* The lines before the expert output, as the proposal is described: the
\* model line, the justification line, the alternatives line when there is
\* an alternative, the confidence line; a newline between two lines.
RECURSIVE AlternativesList(_)
AlternativesList(alts) ==
  IF Len(alts) = 0 THEN <<>>
  ELSE alts[1].model \o <<" (score: ">> \o NumberToString(alts[1].score) \o <<")">>
         \o (IF Len(alts) = 1 THEN <<>> ELSE <<", ">> \o AlternativesList(Tail(alts)))

HeaderLines(d, confidence) ==
  <<"Model recommendation: ">> \o d.recommended_model
    \o <<"\n", "Reasoning: ">> \o d.reasoning
    \o (IF Len(d.alternatives) >= 1
          THEN <<"\n", "Alternatives: ">> \o AlternativesList(d.alternatives)
          ELSE <<>>)
    \o <<"\n", "Expert analysis (confidence: ">> \o NumberToString(confidence)
    \o <<"):">>

ProposalBuilt(r) == pc[r] \in {"await_vote", "returned"}

\* C16: the proposal ends with exactly the first min(len(output), 2000)
\* characters of the expert output and nothing after them; what precedes
\* them is the header lines of the routing decision (and the newline that
\* ends them), the same however long the output is, so that the proposal is
\* never longer than the header lines, their newline, and 2000 characters.
C16_OutputCut ==
  \A r \in Runs :
    ProposalBuilt(r) =>
      LET out    == expertResult[r].output
          kept   == IF Len(out) < 2000 THEN Len(out) ELSE 2000
          p      == proposal[r]
          header == HeaderLines(delegation[r], expertResult[r].confidence)
      IN  /\ Len(p) >= kept
          /\ SubSeq(p, Len(p) - kept + 1, Len(p)) = SubSeq(out, 1, kept)
          /\ SubSeq(p, 1, Len(p) - kept)
               = header \o (IF kept > 0 THEN <<"\n">> ELSE <<>>)
          /\ Len(p) <= Len(header) + 1 + 2000

\* An output of 5000 characters: the proposal holds its first 2000.
C16_Witness ==
  /\ ProposalBuilt(1)
  /\ Len(expertResult[1].output) = MaxOutput
  /\ Len(proposal[1])
       = Len(HeaderLines(delegation[1], expertResult[1].confidence)) + 1 + 2000
  /\ proposal[1][Len(proposal[1])] = expertResult[1].output[2000]

\* The lines of a text: the stretches between its newlines.
RECURSIVE SplitLines(_)
SplitLines(text) ==
  IF \E i \in 1..Len(text) : text[i] = "\n"
    THEN LET nl == CHOOSE i \in 1..Len(text) :
                     text[i] = "\n" /\ \A k \in 1..(i - 1) : text[k] # "\n"
         IN  <<SubSeq(text, 1, nl - 1)>> \o SplitLines(SubSeq(text, nl + 1, Len(text)))
    ELSE <<text>>

\* C17: the lines of the proposal are, in this order, the model line, the
\* justification line, the alternatives line, the confidence line and the
\* cut output; the alternatives line is there exactly when the routing
\* decision has an alternative, the output exactly when it is not empty, and
\* no line is empty.  (The outputs of the model hold no newline.)
C17_ProposalLines ==
  \A r \in Runs :
    ProposalBuilt(r) =>
      LET d      == delegation[r]
          out    == expertResult[r].output
          lines  == SplitLines(proposal[r])
          hasAlt == IF Len(d.alternatives) >= 1 THEN 1 ELSE 0
          hasOut == IF Len(out) >= 1 THEN 1 ELSE 0
      IN  /\ Len(lines) = 3 + hasAlt + hasOut
          /\ \A i \in 1..Len(lines) : lines[i] # <<>>
          /\ lines[1] = <<"Model recommendation: ">> \o d.recommended_model
          /\ lines[2] = <<"Reasoning: ">> \o d.reasoning
          /\ hasAlt = 1 =>
                lines[3] = <<"Alternatives: ">> \o AlternativesList(d.alternatives)
          /\ (\E i \in 1..Len(lines) : lines[i][1] = "Alternatives: ") <=> hasAlt = 1
          /\ lines[3 + hasAlt] = <<"Expert analysis (confidence: ">>
                                   \o NumberToString(expertResult[r].confidence) \o <<"):">>
          /\ hasOut = 1 => lines[4 + hasAlt] = SubSeq(out, 1, Min(Len(out), 2000))

\* Two alternatives and an empty output: four lines, the third listing the
\* alternatives, none for the output.
C17_Witness ==
  /\ ProposalBuilt(1)
  /\ Len(delegation[1].alternatives) = 2
  /\ expertResult[1].output = <<>>
  /\ Len(SplitLines(proposal[1])) = 4
  /\ SplitLines(proposal[1])[3]
       = <<"Alternatives: ", "claude-sonnet", " (score: ", "8", "8", ")", ", ",
           "codex-5.3", " (score: ", "8", "2", ")">>

\* The proposal of a run, from the routing reply and the execution reply.
ProposalOfReplies(r) ==
  LET d   == replies[r][1].raw
      out == replies[r][3].raw.output
  IN  HeaderLines(d, replies[r][3].raw.confidence)
        \o (IF Len(out) = 0 THEN <<>> ELSE <<"\n">> \o SubSeq(out, 1, Min(Len(out), 2000)))

VoteCalls(r) == {i \in 1..Len(calls[r]) : calls[r][i].tool = "consensus_vote"}

\* C18: a run has no proposal before its execution stage has succeeded; from
\* then on it has one proposal, the text built from its routing reply and
\* its execution reply, which no later step changes, and every voting call
\* carries that text, whatever the earlier votes returned.
C18_OneProposal ==
  /\ [](\A r \in Runs :
          /\ ~ProposalBuilt(r) => (proposal[r] = <<>> /\ VoteCalls(r) = {})
          /\ ProposalBuilt(r) => proposal[r] = ProposalOfReplies(r)
          /\ \A i \in VoteCalls(r) : calls[r][i].args.proposal = proposal[r])
  /\ [][\A r \in Runs : ProposalBuilt(r) => proposal'[r] = proposal[r]]_vars

\* Five voting calls after votes that approved, rejected, failed and timed
\* out: all five carry the same text.
C18_Witness ==
  /\ Returned(1)
  /\ Cardinality(VoteCalls(1)) = 5
  /\ Cardinality({calls[1][i].args.proposal : i \in VoteCalls(1)}) = 1
  /\ FailedVotes(1) = {6}
  /\ replies[1][4].raw.decision = "approved"
  /\ replies[1][5].raw.decision = "rejected"
  /\ replies[1][7].raw.decision = "timeout"

\* A step of run r that receives a failure: its new reply is a rejection, or
\* a value the schema of its stage rejects.
Receives(r) == Len(replies'[r]) = Len(replies[r]) + 1

NewReply(r) == replies'[r][Len(replies'[r])]

NewReplyInvalid(r) ==
  /\ Receives(r)
  /\ NewReply(r).kind = "resolved"
  /\ ~ParseReply(Len(replies'[r]), NewReply(r).raw).ok

NewReplyRejected(r) == Receives(r) /\ NewReply(r).kind = "rejected"

NewFailure(r) ==
  IF NewReply(r).kind = "rejected" THEN NewReply(r).error
  ELSE ParseReply(Len(replies'[r]), NewReply(r).raw).error

\* What the step that receives a failure does, whichever kind of failure it
\* is: in the routing, creation or execution stage the run is rejected with
\* the failure, without a result and without a further call; in the voting
\* stage one error "<strategy> vote failed: <message>" is appended, no
\* strategy result is added, and the next strategy is voted (or, after the
\* last, the run returns).
FailureHandling(r) ==
  LET i == Len(replies'[r])
      N == Len(Requested(config[r]))
  IN  IF i <= 3
        THEN /\ pc'[r] = "threw"
             /\ thrown'[r] = NewFailure(r)
             /\ result'[r] = Unset
             /\ calls'[r] = calls[r]
        ELSE /\ errors'[r] = Append(errors[r],
                                    <<calls[r][i].args.strategy, " vote failed: ">>
                                      \o FailureMessage(NewFailure(r)))
             /\ strategyResults'[r] = strategyResults[r]
             /\ thrown'[r] = Unset
             /\ IF i < 3 + N
                  THEN /\ pc'[r] = "await_vote"
                       /\ Len(calls'[r]) = i + 1
                       /\ calls'[r][i + 1].tool = "consensus_vote"
                       /\ calls'[r][i + 1].args.strategy = Requested(config[r])[i - 2]
                  ELSE /\ pc'[r] = "returned"
                       /\ calls'[r] = calls[r]
                       /\ result'[r].errors = errors'[r]
                       /\ result'[r].strategyResults = strategyResults[r]

\* C19: a gateway result that fails validation is handled exactly like a
\* failed gateway call at the same stage.
C19_InvalidLikeFailed ==
  [][\A r \in Runs :
       /\ NewReplyInvalid(r) => FailureHandling(r)
       /\ NewReplyRejected(r) => FailureHandling(r)]_vars

\* The second of five voting results had a decision outside the enum: one
\* error for it, four results, all five strategies voted.
C19_Witness ==
  /\ Returned(1) /\ DefaultRun(1)
  /\ FailedVotes(1) = {5}
  /\ replies[1][5].kind = "resolved"
  /\ result[1].errors
       = << <<"supermajority", " vote failed: ">>
              \o VoteResponseSchema_parse(replies[1][5].raw).error.message >>
  /\ Len(result[1].strategyResults) = 4
  /\ Cardinality(VoteCalls(1)) = 5

\* The gateway calls of run r that have been issued and not yet settled.
Outstanding(r) == Len(calls[r]) - Len(replies[r])

Awaiting(r) == pc[r] \in AwaitStages \cup {"await_vote"}

\* C20: a run has at most one gateway call outstanding, and has one exactly
\* while it awaits; a step issues at most one call, and only when every
\* earlier call of the run has been settled by then (the call of a stage
\* after the reply to the previous stage, the vote of strategy i + 1 after
\* the reply, or the failure, of the vote of strategy i).
C20_OneCallAtATime ==
  /\ [](\A r \in Runs :
          /\ Outstanding(r) \in {0, 1}
          /\ Outstanding(r) = 1 <=> Awaiting(r))
  /\ [][\A r \in Runs :
          Len(calls'[r]) > Len(calls[r]) =>
            /\ Len(calls'[r]) = Len(calls[r]) + 1
            /\ Len(replies'[r]) = Len(calls[r])]_vars

\* The vote of the fourth strategy is outstanding; the votes before it were
\* answered, the third with a failure.
C20_Witness ==
  /\ pc[1] = "await_vote"
  /\ Len(calls[1]) = 7
  /\ Len(replies[1]) = 6
  /\ ReplyFailed(1, 6)
  /\ calls[1][7].args.strategy = "proof_of_learning"

\* The evaluation of a run, from its configuration and the replies of its
\* stages 1-3.
EvaluationOfReplies(r) ==
  LET d == replies[r][1].raw
      c == replies[r][2].raw
      e == replies[r][3].raw
  IN  [task             |-> config[r].task,
       recommendedModel |-> d.recommended_model,
       reasoning        |-> d.reasoning,
       alternatives     |-> [i \in 1..Len(d.alternatives) |->
                               [model |-> d.alternatives[i].model,
                                score |-> d.alternatives[i].score]],
       expertRole       |-> c.role,
       expertOutput     |-> e.output,
       expertConfidence |-> e.confidence]

\* The result of a run, from its own configuration and its own replies: what
\* the run returns when it executes alone with these gateway responses.
ResultOfReplies(r) ==
  LET results  == ExpectedResults(r, Len(replies[r]))
      a        == Cardinality(SucceededWith(r, "approved"))
      j        == Cardinality(SucceededWith(r, "rejected"))
      majority == IF a >= j THEN a ELSE j
  IN  [evaluation        |-> EvaluationOfReplies(r),
       strategyResults   |-> results,
       strategyAgreement |-> IF Len(results) = 0 THEN [num |-> 0, den |-> 1]
                             ELSE Quotient(majority, Len(results)),
       errors            |-> ExpectedErrors(r, Len(replies[r]))]

\* The part of the state that belongs to run r.
StateOf(r) ==
  <<config[r], pc[r], calls[r], replies[r], strategies[r], delegation[r], expert[r],
    expertResult[r], evaluation[r], proposal[r], strategyResults[r], errors[r],
    idx[r], result[r], thrown[r]>>

\* C21: two runs in flight together share nothing: whatever the interleaving,
\* the result a run returns is the one its own configuration and its own
\* gateway responses give, and a step of one run changes nothing of the other.
C21_RunsIndependent ==
  /\ [](\A r \in Runs : Returned(r) => result[r] = ResultOfReplies(r))
  /\ [][\A r, q \in Runs :
          (r # q /\ StateOf(r)' # StateOf(r)) => StateOf(q)' = StateOf(q)]_vars

\* Both runs have returned, run 1 with a failed unanimous vote and an
\* approval, run 2 with a rejection and no error.
C21_Witness ==
  /\ Returned(1) /\ Returned(2)
  /\ config[1] = PairConfigA /\ config[2] = PairConfigB
  /\ result[1].errors = << <<"unanimous", " vote failed: ", "boom">> >>
  /\ Len(result[1].strategyResults) = 1
  /\ result[1].strategyResults[1].decision = "approved"
  /\ result[2].errors = <<>>
  /\ Len(result[2].strategyResults) = 1
  /\ result[2].strategyResults[1].decision = "rejected"

\* C22: the execution call carries as expertId the identifier of this run's
\* creation response, and as task a prompt that embeds the configured task,
\* the recommended model and the routing justification of this run's routing
\* response, and is not the bare configured task.
C22_ExecutionArguments ==
  \A r \in Runs :
    Len(calls[r]) >= 3 =>
      LET args == calls[r][3].args
          d    == replies[r][1].raw
      IN  /\ calls[r][3].tool = "execute_expert"
          /\ DOMAIN args = {"expertId", "task"}
          /\ args.expertId = replies[r][2].raw.expertId
          /\ includes(args.task, config[r].task)
          /\ includes(args.task, d.recommended_model)
          /\ includes(args.task, d.reasoning)
          /\ args.task # config[r].task

\* The creation response named security-expert, the routing response codex-5.3.
C22_Witness ==
  /\ Len(calls[1]) >= 3
  /\ replies[1][1].raw.recommended_model = <<"codex-5.3">>
  /\ replies[1][2].raw.expertId = <<"security-expert">>
  /\ calls[1][3].args.expertId = <<"security-expert">>
  /\ includes(calls[1][3].args.task, <<"codex-5.3">>)

\* C23: the expertRole of the returned evaluation is the role the creation
\* response reports, whatever role was asked for; the evaluation is the one
\* the configuration and the replies of stages 1-3 give, it is set when the
\* execution stage ends and no voting step changes it.
C23_EvaluationFromStages ==
  /\ [](\A r \in Runs :
          /\ ProposalBuilt(r) => evaluation[r] = EvaluationOfReplies(r)
          /\ Returned(r) =>
                /\ result[r].evaluation.expertRole = replies[r][2].raw.role
                /\ result[r].evaluation = evaluation[r])
  /\ [][\A r \in Runs : ProposalBuilt(r) => evaluation'[r] = evaluation[r]]_vars

\* security_expert was asked for, the creation response reported
\* code_expert, and the one vote failed.
C23_Witness ==
  /\ Returned(1)
  /\ CreationRole(1) = "security_expert"
  /\ replies[1][2].raw.role = "code_expert"
  /\ result[1].evaluation.expertRole = "code_expert"
  /\ Len(result[1].errors) = 1

\* C24: the role argument sent to the creation operation is, in every run
\* and for every configuration, one of the nine role identifiers.
C24_RoleIsOneOfNine ==
  \A r \in Runs :
    Len(calls[r]) >= 2 => CreationRole(r) \in ExpertRoles

Terminated(r) == pc[r] \in {"returned", "threw"}

\* C25: when every gateway call eventually resolves or rejects, every run
\* that was invoked eventually terminates, rejected in stages 1-3 or returned
\* after its last voting call; and while a call of a run is outstanding and
\* receives no reply, the run does not complete and issues no further call.
C25_Termination ==
  /\ \A r \in Runs : config[r] # Unset ~> Terminated(r)
  /\ [](\A r \in Runs :
          /\ pc[r] = "threw" => Len(replies[r]) <= 3
          /\ Returned(r) => Len(replies[r]) = 3 + Len(Requested(config[r])))
  /\ [][\A r \in Runs :
          (Awaiting(r) /\ replies'[r] = replies[r]) =>
            (pc'[r] = pc[r] /\ calls'[r] = calls[r] /\ result'[r] = result[r])]_vars

\* A run of five strategies has returned after its eighth reply.
C25_Witness ==
  /\ Returned(1) /\ DefaultRun(1)
  /\ Len(replies[1]) = 8
  /\ Len(calls[1]) = 8

\* The strategies passed to the voting calls that succeeded, in call order.
RECURSIVE StrategiesOfSuccesses(_, _)
StrategiesOfSuccesses(r, n) ==
  IF n <= 3 THEN <<>>
  ELSE IF ReplyFailed(r, n) THEN StrategiesOfSuccesses(r, n - 1)
  ELSE Append(StrategiesOfSuccesses(r, n - 1), calls[r][n].args.strategy)

\* C26: the strategy of the StrategyResult of every successful voting call is
\* the strategy that was passed to that call, hence one of the five
\* identifiers, whatever strategy the vote response echoes.
C26_StrategyIsTheRequested ==
  \A r \in Runs :
    LET asked == StrategiesOfSuccesses(r, Len(replies[r]))
    IN  /\ Len(strategyResults[r]) = Len(asked)
        /\ \A k \in 1..Len(asked) :
             /\ strategyResults[r][k].strategy = asked[k]
             /\ strategyResults[r][k].strategy \in VotingStrategy

\* The length of a text in characters: the sum of the lengths of its tokens.
RECURSIVE SpanLength(_, _, _)
SpanLength(text, lo, hi) ==
  IF lo > hi THEN 0
  ELSE IF lo = hi THEN Len(text[lo])
  ELSE LET mid == (lo + hi) \div 2
       IN  SpanLength(text, lo, mid) + SpanLength(text, mid + 1, hi)

StringLength(text) == SpanLength(text, 1, Len(text))

\* C27: every proposal passed to the voting operation is at least 1 and at
\* most 4000 characters long (the bounds of VoteInputSchema.proposal), for
\* every validated routing decision and every execution outcome.
C27_ProposalWithinBounds ==
  \A r \in Runs :
    \A i \in VoteCalls(r) :
      /\ StringLength(calls[r][i].args.proposal) >= 1
      /\ StringLength(calls[r][i].args.proposal) <= 4000

====
